---- MODULE Spec2Model ----
(***************************************************************************)
(* Model of the ml service: the POST /get_llm_rec endpoint (ml/main.py)    *)
(* and the metrics preprocessor (ml/utils.py).                             *)
(*                                                                         *)
(* Floats are modelled by integers n standing for the float n.0; the       *)
(* Russian prompt literals are transliterated to ASCII.                    *)
(***************************************************************************)
EXTENDS Integers, Sequences, FiniteSets, TLC

(***************************************************************************)
(* Bounds of the model.                                                    *)
(***************************************************************************)
\* number of inbound HTTP requests of one run
NumRequests == 2
\* longest sample sequence given to preprocess_metrics on its own
MaxLen == 2
\* seconds of wall-clock time that pass in one Tick
TickSeconds == 40

Requests == 1..NumRequests

(***************************************************************************)
(* State.                                                                  *)
(***************************************************************************)
VARIABLES
    pc,          \* per request: "idle", "arrived", "chat" (inside client.chat), "done"
    body,        \* per request: the JSON body it carries
    request,     \* per request: the handler's argument
    cpu_data,    \* per request: the handler's local cpu_data
    ram_data,    \* per request: the handler's local ram_data
    sent,        \* per request: the chat invocations made for it, in order
    result,      \* per request: what its chat call did
    response,    \* per request: the HTTP response
    running,     \* the request whose handler occupies the event loop thread, 0 if none
    waited,      \* seconds the chat call of the running handler has been outstanding
    client_det,  \* the Model Client answers equal invocations equally
    lax_str,     \* the installed validation library converts numbers to str
    pre_args,    \* arguments of a direct call of preprocess_metrics
    pre_ret      \* its return value

vars == <<pc, body, request, cpu_data, ram_data, sent, result, response,
          running, waited, client_det, lax_str, pre_args, pre_ret>>

handler_vars == <<pc, body, request, cpu_data, ram_data, sent, result, response,
                  running, waited>>

(***************************************************************************)
(* JSON values of a request body.  Every value is a record of the same     *)
(* shape; t is the JSON type and only the field of that type is used.      *)
(***************************************************************************)
JAbsent == [t |-> "absent", s |-> "", n |-> 0, a |-> <<>>]
JStr(s) == [t |-> "string", s |-> s, n |-> 0, a |-> <<>>]
JNum(n) == [t |-> "number", s |-> "", n |-> n, a |-> <<>>]
JArr(a) == [t |-> "array", s |-> "", n |-> 0, a |-> a]

\* the sample values of the model
Samples == {10, 20, 40}

\* str(x) of a Python float with an integral value: 10.0 -> "10.0"
FloatStr(n) == ToString(n) \o ".0"

\* float(s) accepts s: s is the decimal text of a number
IsNumericString(s) == \E n \in 0..40 : ToString(n) = s

\* float(s) for a numeric string: "7" -> 7.0
FloatOfString(s) == CHOOSE n \in 0..40 : ToString(n) = s

(***************************************************************************)
(* MetricsRequest: the declared fields and the validation that the web     *)
(* framework runs on the body before it calls the handler.                 *)
(***************************************************************************)
Fields == <<"cluster", "pod", "cpu_data", "ram_data", "cpu_cost", "ram_cost">>

FieldType(f) ==
    CASE f \in {"cluster", "pod"} -> "str"
      [] f \in {"cpu_data", "ram_data"} -> "List[float]"
      [] f \in {"cpu_cost", "ram_cost"} -> "float"

\* a float field takes a JSON number, or a string that float() parses
FloatOk(v) ==
    \/ v.t = "number"
    \/ v.t = "string" /\ IsNumericString(v.s)

FloatOf(v) == IF v.t = "number" THEN v.n ELSE FloatOfString(v.s)

\* mutant: the str fields are optional
StrOk_optional(v, lax) ==
    \/ v.t \in {"string", "absent"}
    \/ lax /\ v.t = "number"

\* a str field takes a JSON string; a JSON number is converted to its text
\* by version 1 of the validation library and refused by version 2
StrOk(v, lax) ==
    \/ v.t = "string"
    \/ lax /\ v.t = "number"

StrOf(v) == IF v.t = "string" THEN v.s ELSE ToString(v.n)

\* a List[float] field takes a JSON array whose items are all float-valid
ListOk(v) == v.t = "array" /\ \A i \in 1..Len(v.a) : FloatOk(v.a[i])

ListOf(v) == [i \in 1..Len(v.a) |-> FloatOf(v.a[i])]

FieldOk(b, f, lax) ==
    CASE FieldType(f) = "str" -> StrOk(b[f], lax)
      [] FieldType(f) = "float" -> FloatOk(b[f])
      [] FieldType(f) = "List[float]" -> ListOk(b[f])

\* the body b parses as a MetricsRequest
Valid(b, lax) == \A i \in 1..Len(Fields) : FieldOk(b, Fields[i], lax)

\* the MetricsRequest object the handler receives
MetricsRequest(b) ==
    [cluster |-> StrOf(b.cluster), pod |-> StrOf(b.pod),
     cpu_data |-> ListOf(b.cpu_data), ram_data |-> ListOf(b.ram_data),
     cpu_cost |-> FloatOf(b.cpu_cost), ram_cost |-> FloatOf(b.ram_cost)]

NoRequest ==
    [cluster |-> "", pod |-> "", cpu_data |-> <<>>, ram_data |-> <<>>,
     cpu_cost |-> 0, ram_cost |-> 0]

(***************************************************************************)
(* The request bodies of the model: the scenario of the specification and  *)
(* the bodies that differ from it in one field.                            *)
(***************************************************************************)
Base ==
    [cluster |-> JStr("prod"), pod |-> JStr("web-1"),
     cpu_data |-> JArr(<<JNum(10), JNum(20)>>), ram_data |-> JArr(<<JNum(40)>>),
     cpu_cost |-> JNum(1), ram_cost |-> JNum(2)]

ValidBodies ==
    { Base,
      [Base EXCEPT !.cpu_cost = JNum(3)],
      [Base EXCEPT !.ram_cost = JNum(5)],
      [Base EXCEPT !.cpu_data = JArr(<<>>), !.ram_data = JArr(<<>>)] }

\* bodies with a JSON value of another type than the declared one
WrongTypeBodies ==
    { [Base EXCEPT !.cpu_cost = JStr("7")],
      [Base EXCEPT !.cpu_cost = JStr("abc")],
      [Base EXCEPT !.ram_data = JArr(<<JNum(40), JStr("abc")>>)],
      [Base EXCEPT !.pod = JNum(5)] }

MissingFieldBodies == { [Base EXCEPT !.pod = JAbsent] }

Bodies == ValidBodies \cup WrongTypeBodies \cup MissingFieldBodies

NoBody == [f \in {Fields[i] : i \in 1..Len(Fields)} |-> JAbsent]

(***************************************************************************)
(* ml/utils.py                                                             *)
(***************************************************************************)
\* mutant: the pair is returned in the other order
preprocess_metrics_swapped(cpu_data_in, ram_data_in) == <<ram_data_in, cpu_data_in>>

preprocess_metrics(cpu_data_in, ram_data_in) == <<cpu_data_in, ram_data_in>>

(***************************************************************************)
(* The prompt and the chat invocation of get_llm_rec.                      *)
(***************************************************************************)
RECURSIVE JoinFloats(_)
JoinFloats(xs) ==
    IF Len(xs) = 0 THEN ""
    ELSE IF Len(xs) = 1 THEN FloatStr(xs[1])
    ELSE FloatStr(xs[1]) \o ", " \o JoinFloats(Tail(xs))

\* str(xs) of a list of floats, as an f-string renders it: "[10.0, 20.0]"
ListStr(xs) == "[" \o JoinFloats(xs) \o "]"

\* mutant: the prompt of the other snapshot, which includes the cost figures
Prompt_withCost(req, cpu, ram) ==
    "\nProanaliziruy tekushchie znacheniya zagruzki dlya poda " \o req.pod
      \o " v klastere " \o req.cluster \o ":\n - CPU: " \o ListStr(cpu)
      \o "\n - RAM: " \o ListStr(ram)
      \o "\n - CPU cost: " \o FloatStr(req.cpu_cost)
      \o "\n - RAM cost: " \o FloatStr(req.ram_cost)

\* mutant: the prompt carries the number of requests served so far
Prompt_counting(req, cpu, ram) ==
    "\nProanaliziruy tekushchie znacheniya zagruzki dlya poda " \o req.pod
      \o " v klastere " \o req.cluster \o ":\n - CPU: " \o ListStr(cpu)
      \o "\n - RAM: " \o ListStr(ram)
      \o "\n - request: " \o ToString(Cardinality({q \in Requests : pc[q] = "done"}))

\* the f-string of the handler; req is the MetricsRequest, cpu and ram the
\* preprocessed series
Prompt(req, cpu, ram) ==
    "\nProanaliziruy tekushchie znacheniya zagruzki dlya poda " \o req.pod
      \o " v klastere " \o req.cluster \o ":\n - CPU: " \o ListStr(cpu)
      \o "\n - RAM: " \o ListStr(ram)
      \o "\nUkazhi, chto ne tak s podami i predlozhi, chto mozhno sdelat dlya ispravleniya."
      \o "\nOtvechay kratkoyu"

model == "gemma3:12b"

SystemContent == "Ty ekspert po optimizatsii Kubernetes-klasterov."

\* the arguments of client.chat
ChatCall(prompt) ==
    [model |-> model,
     messages |-> << [role |-> "system", content |-> SystemContent],
                     [role |-> "user", content |-> prompt] >>]

(***************************************************************************)
(* What client.chat does: it returns a reply or raises an exception.       *)
(***************************************************************************)
Replies == {"Scale down pod", " Add memory.\n"}

\* the exceptions that the chat call of this client raises: the class and
\* the text str(e)
RaisedExceptions ==
    { <<"ConnectionError", "Failed to connect to Ollama">>,
      <<"ResponseError", "model not found (status code: 404)">>,
      <<"RemoteProtocolError", "Server disconnected without sending a response.">>,
      <<"ReadError", "Connection reset by peer">> }

\* the direct base class of an exception class
BaseClass(cls) ==
    CASE cls = "ConnectionError" -> "OSError"
      [] cls = "OSError" -> "Exception"
      [] cls = "ResponseError" -> "Exception"
      [] cls = "RemoteProtocolError" -> "ProtocolError"
      [] cls = "ProtocolError" -> "TransportError"
      [] cls = "ReadError" -> "NetworkError"
      [] cls = "NetworkError" -> "TransportError"
      [] cls = "TransportError" -> "Exception"
      [] OTHER -> "BaseException"

RECURSIVE IsInstance(_, _)
IsInstance(cls, target) ==
    IF cls = target THEN TRUE
    ELSE IF cls = "BaseException" THEN FALSE
    ELSE IsInstance(BaseClass(cls), target)

\* mutant: except Exception
Caught_all(cls) == IsInstance(cls, "Exception")

\* the except clause of get_llm_rec
ExceptClasses == {"ConnectionError", "ResponseError", "RemoteProtocolError"}

Caught(cls) == \E c \in ExceptClasses : IsInstance(cls, c)

NoResult == [kind |-> "none", content |-> "", cls |-> "", text |-> ""]
Returned(content) == [kind |-> "return", content |-> content, cls |-> "", text |-> ""]
Raised(cls, text) == [kind |-> "raise", content |-> "", cls |-> cls, text |-> text]

(***************************************************************************)
(* HTTP responses.  content is the JSON object of the body; the body of    *)
(* the default server error is plain text, kept under the key "text".      *)
(***************************************************************************)
NoResponse == [status |-> 0, content |-> [text |-> ""]]

\* mutant: the detail leaves out the text of the error
UpstreamError_noText(text) == [status |-> 502, content |-> [detail |-> "Ollama error: "]]

\* raise HTTPException(status_code=502, detail=f"Ollama error: {e}")
UpstreamError(text) == [status |-> 502, content |-> [detail |-> "Ollama error: " \o text]]

\* mutant: the reply is returned next to the model identifier
Recommendation_extra(content) ==
    [status |-> 200, content |-> [recommendation |-> content, model |-> "gemma3:12b"]]

\* return {"recommendation": content}
Recommendation(content) == [status |-> 200, content |-> [recommendation |-> content]]

\* an exception that leaves the handler: the framework's default response
ServerError == [status |-> 500, content |-> [text |-> "Internal Server Error"]]

\* the framework's answer to a body that does not validate
ValidationError == [status |-> 422, content |-> [detail |-> "validation error"]]

\* the handler from the end of the chat call on
AfterChat(res) ==
    IF res.kind = "return" THEN Recommendation(res.content)
    ELSE IF Caught(res.cls) THEN UpstreamError(res.text)
    ELSE ServerError

\* timeout=60.0 of the AsyncClient configuration that is commented out; the
\* Client in use, Client(host=...), is built without a timeout
timeout == 60

Init ==
    /\ pc = [r \in Requests |-> "idle"]
    /\ body = [r \in Requests |-> NoBody]
    /\ request = [r \in Requests |-> NoRequest]
    /\ cpu_data = [r \in Requests |-> <<>>]
    /\ ram_data = [r \in Requests |-> <<>>]
    /\ sent = [r \in Requests |-> <<>>]
    /\ result = [r \in Requests |-> NoResult]
    /\ response = [r \in Requests |-> NoResponse]
    /\ running = 0
    /\ waited = 0
    /\ client_det \in BOOLEAN
    /\ lax_str \in BOOLEAN
    /\ pre_args = <<<<>>, <<>>>>
    /\ pre_ret = <<<<>>, <<>>>>

(***************************************************************************)
(* Actions.                                                                *)
(***************************************************************************)
\* a client posts body b to /get_llm_rec; the connection waits for the
\* event loop.  Requests are numbered in the order of their arrival
Arrive(r, b) ==
    /\ pc[r] = "idle"
    /\ \A q \in Requests : q < r => pc[q] # "idle"
    /\ pc' = [pc EXCEPT ![r] = "arrived"]
    /\ body' = [body EXCEPT ![r] = b]
    /\ UNCHANGED <<request, cpu_data, ram_data, sent, result, response,
                   running, waited, client_det, lax_str, pre_args, pre_ret>>

\* the framework validates the body against MetricsRequest and refuses it;
\* the handler is not called
Reject(r) ==
    /\ pc[r] = "arrived"
    /\ running = 0
    /\ ~Valid(body[r], lax_str)
    /\ pc' = [pc EXCEPT ![r] = "done"]
    /\ response' = [response EXCEPT ![r] = ValidationError]
    /\ UNCHANGED <<body, request, cpu_data, ram_data, sent, result,
                   running, waited, client_det, lax_str, pre_args, pre_ret>>

\* the handler up to and including the call of client.chat.  The call is a
\* plain (not awaited) call of the synchronous Client inside the coroutine,
\* so the handler keeps the event loop thread until the call is over
get_llm_rec(r) ==
    /\ pc[r] = "arrived"
    /\ running = 0
    /\ Valid(body[r], lax_str)
    /\ LET req == MetricsRequest(body[r])
           pre == preprocess_metrics(req.cpu_data, req.ram_data)
           prompt == Prompt(req, pre[1], pre[2])
       IN /\ request' = [request EXCEPT ![r] = req]
          /\ cpu_data' = [cpu_data EXCEPT ![r] = pre[1]]
          /\ ram_data' = [ram_data EXCEPT ![r] = pre[2]]
          /\ sent' = [sent EXCEPT ![r] = Append(@, ChatCall(prompt))]
    /\ pc' = [pc EXCEPT ![r] = "chat"]
    /\ running' = r
    /\ waited' = 0
    /\ UNCHANGED <<body, result, response, client_det, lax_str, pre_args, pre_ret>>

\* a deterministic Model Client gives res to the invocation of r only if it
\* gave res to every equal invocation before
Consistent(r, res) ==
    client_det =>
        \A q \in Requests :
            (result[q] # NoResult /\ sent[q][1] = sent[r][Len(sent[r])])
                => result[q] = res

\* the rest of the handler once client.chat is over with res
Finish(r, res) ==
    /\ pc[r] = "chat"
    /\ running = r
    /\ Consistent(r, res)
    /\ result' = [result EXCEPT ![r] = res]
    /\ response' = [response EXCEPT ![r] = AfterChat(res)]
    /\ pc' = [pc EXCEPT ![r] = "done"]
    /\ running' = 0
    /\ waited' = 0
    /\ UNCHANGED <<body, request, cpu_data, ram_data, sent,
                   client_det, lax_str, pre_args, pre_ret>>

\* client.chat returns a reply with text content
ChatReturns(r, content) == Finish(r, Returned(content))

\* mutant: a caught failure is retried once before it is reported
ChatRaises_retry(r, cls, text) ==
    IF Caught(cls) /\ Len(sent[r]) = 1
    THEN /\ pc[r] = "chat"
         /\ running = r
         /\ sent' = [sent EXCEPT ![r] = Append(@, @[1])]
         /\ UNCHANGED <<pc, body, request, cpu_data, ram_data, result, response,
                        running, waited, client_det, lax_str, pre_args, pre_ret>>
    ELSE Finish(r, Raised(cls, text))

\* client.chat raises an exception of class cls with text str(e) = text
ChatRaises(r, cls, text) == Finish(r, Raised(cls, text))

\* time passes while the running handler is inside client.chat; nothing
\* ends the call when the time exceeds timeout
Tick ==
    /\ running # 0
    /\ waited <= timeout
    /\ waited' = waited + TickSeconds
    /\ UNCHANGED <<pc, body, request, cpu_data, ram_data, sent, result, response,
                   running, client_det, lax_str, pre_args, pre_ret>>

Next ==
    \/ \E r \in Requests, b \in Bodies : Arrive(r, b)
    \/ \E r \in Requests : Reject(r)
    \/ \E r \in Requests : get_llm_rec(r)
    \/ \E r \in Requests, content \in Replies : ChatReturns(r, content)
    \/ \E r \in Requests, e \in RaisedExceptions : ChatRaises(r, e[1], e[2])
    \/ Tick

Spec == Init /\ [][Next]_vars

(***************************************************************************)
(* preprocess_metrics on its own, on every pair of sample sequences.       *)
(***************************************************************************)
SeqsUpTo(n) == UNION {[1..k -> Samples] : k \in 0..n}

CallPreprocess(cpu, ram) ==
    /\ pre_args' = <<cpu, ram>>
    /\ pre_ret' = preprocess_metrics(cpu, ram)
    /\ UNCHANGED <<handler_vars, client_det, lax_str>>

NextPreprocess == \E cpu \in SeqsUpTo(MaxLen), ram \in SeqsUpTo(MaxLen) : CallPreprocess(cpu, ram)

SpecPreprocess == Init /\ [][NextPreprocess]_vars

(***************************************************************************)
(* Properties.                                                             *)
(***************************************************************************)
NamedClasses == {"ConnectionError", "ResponseError", "RemoteProtocolError"}

\* C1: a request whose chat call raised a connection failure, a ResponseError
\* or a remote-protocol error has ended with status 502, with the detail
\* "Ollama error: " followed by the text of the error, and without a
\* recommendation.
C1_UpstreamFailureIs502 ==
    \A r \in Requests :
        (result[r].kind = "raise" /\ result[r].cls \in NamedClasses)
            => /\ pc[r] = "done"
               /\ response[r].status = 502
               /\ DOMAIN response[r].content = {"detail"}
               /\ response[r].content.detail = "Ollama error: " \o result[r].text

C1_Witness ==
    \E r \in Requests :
        /\ result[r] = Raised("ResponseError", "model not found (status code: 404)")
        /\ response[r].status = 502

\* C2: a request whose chat call returned a reply with text R has ended with
\* status 200 and a body whose only field, recommendation, is R.
C2_ReplyReturnedUnmodified ==
    \A r \in Requests :
        result[r].kind = "return"
            => /\ pc[r] = "done"
               /\ response[r].status = 200
               /\ DOMAIN response[r].content = {"recommendation"}
               /\ response[r].content.recommendation = result[r].content

C2_Witness ==
    \E r \in Requests :
        /\ result[r] = Returned(" Add memory.\n")
        /\ response[r].status = 200

\* C7: a request whose chat call raised an exception of another class than
\* the three named ones has ended with the server error 500: no 502, no
\* "Ollama error" detail, no recommendation.
C7_OtherExceptionPropagates ==
    \A r \in Requests :
        (result[r].kind = "raise" /\ result[r].cls \notin NamedClasses)
            => /\ pc[r] = "done"
               /\ response[r].status = 500
               /\ DOMAIN response[r].content = {"text"}

C7_Witness ==
    \E r \in Requests : result[r].cls = "ReadError" /\ pc[r] = "done"

\* the claims' reading of a request body: a required field is missing
MissingField(b) == \E i \in 1..Len(Fields) : b[Fields[i]].t = "absent"

\* the JSON type the interface declares for a field
DeclaredJson(f) ==
    CASE FieldType(f) = "str" -> "string"
      [] FieldType(f) = "float" -> "number"
      [] FieldType(f) = "List[float]" -> "array"

\* a field is present with a JSON value of another type than the declared
\* one (for an array: with an item that is not a number)
WrongType(b) ==
    \E i \in 1..Len(Fields) :
        LET v == b[Fields[i]] IN
        /\ v.t # "absent"
        /\ \/ v.t # DeclaredJson(Fields[i])
           \/ v.t = "array" /\ \E k \in 1..Len(v.a) : v.a[k].t # "number"

\* a value that no version of the validation converts to a float
NotFloat(v) == ~(v.t = "number" \/ (v.t = "string" /\ IsNumericString(v.s)))

\* a field is present with a value that cannot be converted to the declared
\* type
Unconvertible(b) ==
    \E i \in 1..Len(Fields) :
        LET v == b[Fields[i]] IN
        /\ v.t # "absent"
        /\ CASE FieldType(Fields[i]) = "str" -> v.t \notin {"string", "number"}
             [] FieldType(Fields[i]) = "float" -> NotFloat(v)
             [] FieldType(Fields[i]) = "List[float]" ->
                    \/ v.t # "array"
                    \/ \E k \in 1..Len(v.a) : NotFloat(v.a[k])

\* the framework has dealt with the request
Dispatched(r) == pc[r] \in {"chat", "done"}

\* C5 as stated: a dispatched request whose body misses a required field or
\* has a field of the wrong type was rejected with 422 and chat was never
\* invoked for it.
C5_WrongTypeRejected ==
    \A r \in Requests :
        (Dispatched(r) /\ (MissingField(body[r]) \/ WrongType(body[r])))
            => /\ response[r].status = 422
               /\ sent[r] = <<>>
               /\ request[r] = NoRequest

\* C5 amended: a dispatched request whose body misses a required field or
\* has a field whose value cannot be converted to the declared type was
\* rejected with 422 before the handler ran, and chat was never invoked for
\* it.
C5_UnconvertibleRejected ==
    \A r \in Requests :
        (Dispatched(r) /\ (MissingField(body[r]) \/ Unconvertible(body[r])))
            => /\ pc[r] = "done"
               /\ response[r].status = 422
               /\ sent[r] = <<>>
               /\ request[r] = NoRequest
               /\ result[r] = NoResult

C5_Witness ==
    /\ \E r \in Requests : MissingField(body[r]) /\ response[r].status = 422
    /\ \E r \in Requests : Unconvertible(body[r]) /\ response[r].status = 422

\* the request passed the validation: the handler was called for it
Handled(r) == Dispatched(r) /\ response[r].status # 422

\* C6 as stated: a request that passed validation has exactly one chat
\* invocation, no request ever has more than one, and a finished one ended
\* with success or with the upstream failure.
C6_OneCallTwoOutcomes ==
    \A r \in Requests :
        /\ Len(sent[r]) <= 1
        /\ Handled(r) => Len(sent[r]) = 1
        /\ (Handled(r) /\ pc[r] = "done") => response[r].status \in {200, 502}

\* C6 amended: a request that passed validation has exactly one chat
\* invocation, whether the call succeeded or failed, and no request ever has
\* more than one; a finished one ended with success, with the upstream
\* failure, or, when the exception was not one of the caught classes, with
\* the unclassified server error.
C6_OneCallThreeOutcomes ==
    \A r \in Requests :
        /\ Len(sent[r]) <= 1
        /\ Handled(r) => Len(sent[r]) = 1
        /\ (Handled(r) /\ pc[r] = "done") =>
              /\ response[r].status \in {200, 502, 500}
              /\ response[r].status = 500 =>
                    (result[r].kind = "raise" /\ result[r].cls \notin NamedClasses)

C6_Witness ==
    /\ \E r \in Requests : result[r].kind = "raise" /\ Len(sent[r]) = 1 /\ pc[r] = "done"
    /\ \E r \in Requests : result[r].kind = "return" /\ Len(sent[r]) = 1 /\ pc[r] = "done"

\* C3 as stated: a chat call that has been outstanding for longer than the
\* timeout is over, and its request has the 502 response.
C3_TimeoutIsUpstreamError ==
    \A r \in Requests :
        (running = r /\ waited > timeout)
            => (pc[r] = "done" /\ response[r].status = 502)

\* C4 as stated: while a request is inside the chat call, the handling of
\* another request that has arrived can start.
C4_OthersServedDuringChat ==
    \A r, q \in Requests :
        (pc[r] = "chat" /\ pc[q] = "arrived")
            => ENABLED (Reject(q) \/ get_llm_rec(q))

\* C8: preprocess_metrics returns the pair of its arguments: the CPU
\* sequence first, the RAM sequence second, each with the same elements in
\* the same order.
C8_PreprocessIdentity ==
    /\ Len(pre_ret) = 2
    /\ pre_ret[1] = pre_args[1]
    /\ pre_ret[2] = pre_args[2]

C8_Witness == pre_args = << <<20, 10>>, <<>> >> /\ pre_ret[1] = <<20, 10>>

\* C9: with a deterministic Model Client, two finished requests with the
\* same body were sent to the client alike and have the same response.
C9_SameRequestSameResponse ==
    client_det =>
        \A r, q \in Requests :
            (pc[r] = "done" /\ pc[q] = "done" /\ body[r] = body[q])
                => (sent[r] = sent[q] /\ response[r] = response[q])

C9_Witness ==
    /\ client_det
    /\ \E r, q \in Requests :
          /\ r # q
          /\ pc[r] = "done" /\ pc[q] = "done"
          /\ body[r] = body[q]
          /\ result[r].kind = "return"

\* the bodies agree on cluster, pod, cpu_data and ram_data
AgreeButCost(b1, b2) ==
    /\ b1.cluster = b2.cluster
    /\ b1.pod = b2.pod
    /\ b1.cpu_data = b2.cpu_data
    /\ b1.ram_data = b2.ram_data

\* C10: two requests that were handled and agree on cluster, pod, cpu_data
\* and ram_data sent the same model identifier and the same list of a system
\* message and a user message; with a deterministic Model Client, once both
\* are finished they have the same response.
C10_CostUnused ==
    \A r, q \in Requests :
        (Handled(r) /\ Handled(q) /\ AgreeButCost(body[r], body[q]))
            => /\ sent[r] = sent[q]
               /\ Len(sent[r][1].messages) = 2
               /\ sent[r][1].messages[1].role = "system"
               /\ sent[r][1].messages[2].role = "user"
               /\ (client_det /\ pc[r] = "done" /\ pc[q] = "done")
                      => response[r] = response[q]

C10_Witness ==
    /\ client_det
    /\ \E r, q \in Requests :
          /\ pc[r] = "done" /\ pc[q] = "done"
          /\ AgreeButCost(body[r], body[q])
          /\ body[r].cpu_cost # body[q].cpu_cost
          /\ response[r].status = 200

====
